---------------------------- MODULE Spec2Model ----------------------------
(***************************************************************************)
(* Model of src/app.py: the meeting-pattern parser (parse_meeting_pattern) *)
(* and the occurrence expander (create_ics_from_excel_df), with the        *)
(* summary that process_excel_file builds from their result.               *)
(*                                                                         *)
(* Text is a sequence of one-character strings, so that splitting,         *)
(* stripping, substring search and strptime are computed character by      *)
(* character as the Python code computes them.  A calendar date is its     *)
(* proleptic Gregorian ordinal (date.toordinal(): 0001-01-01 is 1).        *)
(***************************************************************************)
EXTENDS Integers, Sequences, FiniteSets, TLC

(***************************************************************************)
(* Python str primitives                                                   *)
(***************************************************************************)

\* str.strip() with no argument strips these.
Whitespace == {" ", "\t", "\n", "\r", "\f"}

SetMin(S) == CHOOSE x \in S : \A y \in S : x <= y

\* The character of s at position i, or "" past either end.
At(s, i) == IF i >= 1 /\ i <= Len(s) THEN s[i] ELSE ""

\* s[i-1:].startswith(p)
StartsAt(p, s, i) ==
    /\ i + Len(p) - 1 <= Len(s)
    /\ \A k \in 1..Len(p) : s[i + k - 1] = p[k]

\* s.strip(chars): drop leading and trailing characters that are in chars.
StripChars(s, chars) ==
    IF \A i \in 1..Len(s) : s[i] \in chars THEN <<>>
    ELSE LET first == CHOOSE i \in 1..Len(s) :
                          s[i] \notin chars /\ \A j \in 1..(i - 1) : s[j] \in chars
             last  == CHOOSE i \in 1..Len(s) :
                          s[i] \notin chars /\ \A j \in (i + 1)..Len(s) : s[j] \in chars
         IN  SubSeq(s, first, last)

\* s.strip()
Strip(s) == StripChars(s, Whitespace)

\* The first position at or after i where sub occurs in s, 0 when none.
FindFrom(s, sub, i) ==
    LET hits == {j \in i..(Len(s) - Len(sub) + 1) : StartsAt(sub, s, j)}
    IN  IF hits = {} THEN 0 ELSE SetMin(hits)

RECURSIVE SplitFrom(_, _, _)
\* The pieces of s from position start on.
SplitFrom(s, sep, start) ==
    LET j == FindFrom(s, sep, start)
    IN  IF j = 0 THEN <<SubSeq(s, start, Len(s))>>
        ELSE <<SubSeq(s, start, j - 1)>> \o SplitFrom(s, sep, j + Len(sep))

\* s.split(sep) for a non-empty separator: always at least one piece.
Split(s, sep) == SplitFrom(s, sep, 1)

RECURSIVE ReplaceFrom(_, _, _, _)
ReplaceFrom(s, old, new, start) ==
    LET j == FindFrom(s, old, start)
    IN  IF j = 0 THEN SubSeq(s, start, Len(s))
        ELSE SubSeq(s, start, j - 1) \o new
             \o ReplaceFrom(s, old, new, j + Len(old))

\* s.replace(old, new): left to right, non-overlapping.
Replace(s, old, new) == ReplaceFrom(s, old, new, 1)

\* sub in s
Contains(s, sub) == \E i \in 1..(Len(s) - Len(sub) + 1) : StartsAt(sub, s, i)

RECURSIVE Join(_, _)
\* sep.join(parts)
Join(parts, sep) ==
    IF parts = <<>> THEN <<>>
    ELSE IF Len(parts) = 1 THEN parts[1]
         ELSE parts[1] \o sep \o Join(Tail(parts), sep)

(***************************************************************************)
(* datetime: the calendar                                                  *)
(***************************************************************************)

IsLeap(y) == y % 4 = 0 /\ (y % 100 # 0 \/ y % 400 = 0)

DaysInMonth(y, m) ==
    IF m = 2 THEN (IF IsLeap(y) THEN 29 ELSE 28)
    ELSE IF m \in {4, 6, 9, 11} THEN 30 ELSE 31

RECURSIVE DaysBeforeMonth(_, _)
DaysBeforeMonth(y, m) ==
    IF m = 1 THEN 0 ELSE DaysBeforeMonth(y, m - 1) + DaysInMonth(y, m - 1)

\* date(y, m, d).toordinal()
Ordinal(y, m, d) ==
    LET p == y - 1
    IN  365 * p + (p \div 4) - (p \div 100) + (p \div 400)
        + DaysBeforeMonth(y, m) + d

\* date.max.toordinal(): date + timedelta raises OverflowError beyond it.
MaxOrdinal == Ordinal(9999, 12, 31)

\* date.weekday(): Monday is 0.
Weekday(ord) == (ord + 6) % 7

(***************************************************************************)
(* datetime.strptime                                                       *)
(***************************************************************************)

DigitVal == [c \in {"0", "1", "2", "3", "4", "5", "6", "7", "8", "9"} |->
               CASE c = "0" -> 0 [] c = "1" -> 1 [] c = "2" -> 2 [] c = "3" -> 3
                 [] c = "4" -> 4 [] c = "5" -> 5 [] c = "6" -> 6 [] c = "7" -> 7
                 [] c = "8" -> 8 [] c = "9" -> 9]

IsDigit(c) == c \in DOMAIN DigitVal
Dig(s, i) == DigitVal[s[i]]

StrptimeFail == [ok |-> FALSE]

\* A regex alternative that matched: its value and the position after it.
Cand(v, e) == [v |-> v, e |-> e]

\* The alternatives of (1[0-2]|0[1-9]|[1-9]) that match at p, in regex
\* order: the directives %m and %I.
Alt12(s, p) ==
    (IF At(s, p) = "1" /\ At(s, p + 1) \in {"0", "1", "2"}
       THEN <<Cand(10 + Dig(s, p + 1), p + 2)>> ELSE <<>>)
    \o (IF At(s, p) = "0" /\ IsDigit(At(s, p + 1)) /\ At(s, p + 1) # "0"
          THEN <<Cand(Dig(s, p + 1), p + 2)>> ELSE <<>>)
    \o (IF IsDigit(At(s, p)) /\ At(s, p) # "0"
          THEN <<Cand(Dig(s, p), p + 1)>> ELSE <<>>)

\* (3[0-1]|[1-2]\d|0[1-9]|[1-9]| [1-9]): the directive %d.
AltDay(s, p) ==
    (IF At(s, p) = "3" /\ At(s, p + 1) \in {"0", "1"}
       THEN <<Cand(30 + Dig(s, p + 1), p + 2)>> ELSE <<>>)
    \o (IF At(s, p) \in {"1", "2"} /\ IsDigit(At(s, p + 1))
          THEN <<Cand(10 * Dig(s, p) + Dig(s, p + 1), p + 2)>> ELSE <<>>)
    \o (IF At(s, p) = "0" /\ IsDigit(At(s, p + 1)) /\ At(s, p + 1) # "0"
          THEN <<Cand(Dig(s, p + 1), p + 2)>> ELSE <<>>)
    \o (IF IsDigit(At(s, p)) /\ At(s, p) # "0"
          THEN <<Cand(Dig(s, p), p + 1)>> ELSE <<>>)
    \o (IF At(s, p) = " " /\ IsDigit(At(s, p + 1)) /\ At(s, p + 1) # "0"
          THEN <<Cand(Dig(s, p + 1), p + 2)>> ELSE <<>>)

\* ([0-5]\d|\d): the directive %M.
AltMinute(s, p) ==
    (IF At(s, p) \in {"0", "1", "2", "3", "4", "5"} /\ IsDigit(At(s, p + 1))
       THEN <<Cand(10 * Dig(s, p) + Dig(s, p + 1), p + 2)>> ELSE <<>>)
    \o (IF IsDigit(At(s, p)) THEN <<Cand(Dig(s, p), p + 1)>> ELSE <<>>)

\* \s+ at p: the position after the run of whitespace, 0 when there is none.
\* What follows in the format starts with a letter, so only the whole run
\* can match.
SkipSpace(s, p) ==
    SetMin({j \in p..(Len(s) + 1) : At(s, j) \notin Whitespace})
SpaceRun(s, p) == IF At(s, p) \in Whitespace THEN SkipSpace(s, p) ELSE 0

\* (am|pm) under re.IGNORECASE: the directive %p.
AltAmPm(s, p) ==
    IF At(s, p + 1) \in {"m", "M"}
    THEN IF At(s, p) \in {"a", "A"} THEN <<Cand("am", p + 2)>>
         ELSE IF At(s, p) \in {"p", "P"} THEN <<Cand("pm", p + 2)>>
         ELSE <<>>
    ELSE <<>>

\* datetime.strptime(s, '%Y-%m-%d').date(): the match of
\* (\d\d\d\d)-(%m)-(%d), no text left over, and a date that exists.
StrptimeDate(s) ==
    IF ~ (\A i \in 1..4 : IsDigit(At(s, i))) \/ At(s, 5) # "-"
    THEN StrptimeFail
    ELSE
      LET y  == 1000 * Dig(s, 1) + 100 * Dig(s, 2) + 10 * Dig(s, 3) + Dig(s, 4)
          ms == SelectSeq(Alt12(s, 6),
                          LAMBDA c : At(s, c.e) = "-" /\ AltDay(s, c.e + 1) # <<>>)
      IN  IF ms = <<>> THEN StrptimeFail
          ELSE
            LET m == ms[1]
                d == AltDay(s, m.e + 1)[1]
            IN  IF d.e # Len(s) + 1 THEN StrptimeFail
                ELSE IF y < 1 \/ d.v > DaysInMonth(y, m.v) THEN StrptimeFail
                ELSE [ok |-> TRUE, date |-> Ordinal(y, m.v, d.v)]

\* The minute alternatives after which \s+(am|pm) matches.
MinuteThenAmPm(s, p) ==
    SelectSeq(AltMinute(s, p),
              LAMBDA c : SpaceRun(s, c.e) # 0 /\ AltAmPm(s, SpaceRun(s, c.e)) # <<>>)

\* datetime.strptime(s, '%I:%M %p').time(): the match of
\* (%I):(%M)\s+(%p), no text left over; 12 AM is hour 0 and PM adds 12.
StrptimeTime(s) ==
    LET hs == SelectSeq(Alt12(s, 1),
                        LAMBDA c : At(s, c.e) = ":" /\ MinuteThenAmPm(s, c.e + 1) # <<>>)
    IN  IF hs = <<>> THEN StrptimeFail
        ELSE
          LET h  == hs[1]
              mi == MinuteThenAmPm(s, h.e + 1)[1]
              ap == AltAmPm(s, SpaceRun(s, mi.e))[1]
              hour == IF ap.v = "am"
                      THEN (IF h.v = 12 THEN 0 ELSE h.v)
                      ELSE (IF h.v # 12 THEN h.v + 12 ELSE h.v)
          IN  IF ap.e # Len(s) + 1 THEN StrptimeFail
              ELSE [ok |-> TRUE, time |-> [hour |-> hour, minute |-> mi.v]]

(***************************************************************************)
(* parse_meeting_pattern                                                   *)
(***************************************************************************)

\* The separators of the mini-format.
BlockSep == <<"\n", "\n">>
FieldSep == <<" ", "|", " ">>
RangeSep == <<" ", "-", " ">>

\* A block needs at least this many ' | ' fields.
MinFields == 6

\* The list the code scans the days field with, in its order; day_mapping
\* gives each name its position in it, Monday 0.
DayNames == << <<"M", "o", "n">>, <<"T", "u", "e">>, <<"W", "e", "d">>,
               <<"T", "h", "u">>, <<"F", "r", "i">>, <<"S", "a", "t">>,
               <<"S", "u", "n">> >>
day_mapping(i) == i - 1

normalize_time_string(time_str) ==
    LET t1 == Replace(time_str, <<"a", ".", "m", ".">>, <<"A", "M">>)
        t2 == Replace(t1, <<"p", ".", "m", ".">>, <<"P", "M">>)
        t3 == Replace(t2, <<"a", ".", "m">>, <<"A", "M">>)
    IN  Replace(t3, <<"p", ".", "m">>, <<"P", "M">>)

\* ParseDateRange with the pieces taken by position, as the time range
\* takes them: pieces after the second are not looked at.
ParseDateRangeFirstTwo(date_range) ==
    LET pieces == Split(date_range, RangeSep)
    IN  IF Len(pieces) < 2 THEN StrptimeFail
        ELSE LET s == StrptimeDate(pieces[1])
                 e == StrptimeDate(pieces[2])
             IN  IF s.ok /\ e.ok
                 THEN [ok |-> TRUE, start_date |-> s.date, end_date |-> e.date]
                 ELSE StrptimeFail

\* The try block of the date range: the unpacking of split(' - ') needs
\* exactly two pieces, and both must parse.
ParseDateRange(date_range) ==
    LET pieces == Split(date_range, RangeSep)
    IN  IF Len(pieces) # 2 THEN StrptimeFail
        ELSE LET s == StrptimeDate(pieces[1])
                 e == StrptimeDate(pieces[2])
             IN  IF s.ok /\ e.ok
                 THEN [ok |-> TRUE, start_date |-> s.date, end_date |-> e.date]
                 ELSE StrptimeFail

\* The try block of the time range: pieces [0] and [1] of split(' - ') are
\* stripped, normalized and parsed; further pieces are not looked at.
ParseTimeRange(time_range) ==
    LET time_parts == Split(time_range, RangeSep)
    IN  IF Len(time_parts) < 2 THEN StrptimeFail
        ELSE LET s == StrptimeTime(normalize_time_string(Strip(time_parts[1])))
                 e == StrptimeTime(normalize_time_string(Strip(time_parts[2])))
             IN  IF s.ok /\ e.ok
                 THEN [ok |-> TRUE, start_time |-> s.time, end_time |-> e.time]
                 ELSE StrptimeFail

\* ParseDays with the field split at spaces and each piece compared with
\* the names, in place of the substring test.
ParseDaysByToken(days) ==
    LET tokens == Split(days, <<" ">>)
        found  == SelectSeq(<<1, 2, 3, 4, 5, 6, 7>>,
                            LAMBDA i : \E k \in 1..Len(tokens) : tokens[k] = DayNames[i])
    IN  [k \in 1..Len(found) |-> day_mapping(found[k])]

\* The weekday numbers of the names found in the days field, in list order.
ParseDays(days) ==
    LET found == SelectSeq(<<1, 2, 3, 4, 5, 6, 7>>,
                           LAMBDA i : Contains(days, DayNames[i]))
    IN  [k \in 1..Len(found) |-> day_mapping(found[k])]

\* f"{building}, {' | '.join(location_parts)}, {campus}".strip(', ')
MakeLocation(building, location_parts, campus) ==
    StripChars(building \o <<",", " ">> \o Join(location_parts, FieldSep)
               \o <<",", " ">> \o campus,
               {",", " "})

\* One pass of the loop over the blocks: what it appends to schedules.
ParseBlock(block) ==
    LET pattern == Strip(block)
        parts   == Split(pattern, FieldSep)
    IN  IF pattern = <<>> THEN <<>>
        ELSE IF Len(parts) < MinFields THEN <<>>
        ELSE
          LET dr == ParseDateRange(Strip(parts[1]))
              tr == ParseTimeRange(Strip(parts[3]))
              weekdays == ParseDays(Strip(parts[2]))
          IN  IF ~ dr.ok THEN <<>>
              ELSE IF ~ tr.ok THEN <<>>
              ELSE IF weekdays = <<>> THEN <<>>
              ELSE << [start_date |-> dr.start_date,
                       end_date   |-> dr.end_date,
                       start_time |-> tr.start_time,
                       end_time   |-> tr.end_time,
                       weekdays   |-> weekdays,
                       location   |-> MakeLocation(Strip(parts[5]),
                                                   SubSeq(parts, 6, Len(parts)),
                                                   Strip(parts[4]))] >>

RECURSIVE ParseBlocks(_)
ParseBlocks(patterns) ==
    IF patterns = <<>> THEN <<>>
    ELSE ParseBlock(patterns[1]) \o ParseBlocks(Tail(patterns))

\* parse_meeting_pattern on a str: the empty text gives no schedule.
parse_meeting_pattern(meeting_pattern) ==
    IF meeting_pattern = <<>> THEN <<>>
    ELSE ParseBlocks(Split(meeting_pattern, BlockSep))

(***************************************************************************)
(* The table and its rows                                                  *)
(***************************************************************************)

ColumnNames == {"Course Listing", "Meeting Patterns", "Section",
                "Instructor", "Instructional Format"}

\* A cell holds a str or the float NaN.
StrCell(s) == [k |-> "str", s |-> s]
NaNCell    == [k |-> "nan", s |-> <<>>]

\* str(value): NaN prints as nan.
PyStr(cell) == IF cell.k = "nan" THEN <<"n", "a", "n">> ELSE cell.s

\* str(row.get(name, '')).strip(): a column the table lacks reads as ''.
Field(cols, row, name) ==
    IF name \in cols THEN Strip(PyStr(row[name])) ELSE <<>>

\* RowIsSkipped without the test of course_listing.
RowIsSkippedPatternOnly(cols, row) ==
    \/ Field(cols, row, "Meeting Patterns") = <<>>
    \/ Field(cols, row, "Meeting Patterns") = <<"n", "a", "n">>

\* if not course_listing or not meeting_patterns or meeting_patterns == 'nan'
RowIsSkipped(cols, row) ==
    \/ Field(cols, row, "Course Listing") = <<>>
    \/ Field(cols, row, "Meeting Patterns") = <<>>
    \/ Field(cols, row, "Meeting Patterns") = <<"n", "a", "n">>

\* schedules = parse_meeting_pattern(meeting_patterns)
RowSchedules(cols, row) ==
    parse_meeting_pattern(Field(cols, row, "Meeting Patterns"))

\* df.empty, for a table that has columns
df_empty(rows) == Len(rows) = 0

(***************************************************************************)
(* The event of one occurrence                                             *)
(***************************************************************************)

\* '\\n' in the source: a backslash and the letter n.
DescriptionSep == <<"\\", "n">>

\* summary = course_listing, with " - " + instructional_format when set.
Summary(cols, row) ==
    LET fmt == Field(cols, row, "Instructional Format")
    IN  Field(cols, row, "Course Listing")
        \o (IF fmt # <<>> THEN <<" ", "-", " ">> \o fmt ELSE <<>>)

description_parts(cols, row) ==
    LET section == Field(cols, row, "Section")
        instructor == Field(cols, row, "Instructor")
        fmt == Field(cols, row, "Instructional Format")
    IN  (IF section # <<>>
           THEN << <<"S", "e", "c", "t", "i", "o", "n", ":", " ">> \o section >>
           ELSE <<>>)
        \o (IF instructor # <<>>
              THEN << <<"I", "n", "s", "t", "r", "u", "c", "t", "o", "r", ":", " ">>
                      \o instructor >>
              ELSE <<>>)
        \o (IF fmt # <<>>
              THEN << <<"F", "o", "r", "m", "a", "t", ":", " ">> \o fmt >>
              ELSE <<>>)

\* vancouver_tz.localize(datetime.combine(date, time))
Localize(date, time) ==
    [date |-> date, time |-> time, tz |-> "America/Vancouver"]

\* MakeEvent with the description added whether or not there are parts.
MakeEventAlwaysDescribed(cols, row, schedule, date, uid) ==
    [uid         |-> uid,
     dtstart     |-> Localize(date, schedule.start_time),
     dtend       |-> Localize(date, schedule.end_time),
     summary     |-> Summary(cols, row),
     location    |-> schedule.location,
     categories  |-> <<"EDUCATION", "COURSE">>,
     description |-> Join(description_parts(cols, row), DescriptionSep)]

\* The Event the loop body builds.  uid stands for the fresh uuid4; dtstamp
\* (the clock at generation) is left out.  The description property is
\* added only when there are parts.
MakeEvent(cols, row, schedule, date, uid) ==
    LET parts == description_parts(cols, row)
        base  == [uid        |-> uid,
                  dtstart    |-> Localize(date, schedule.start_time),
                  dtend      |-> Localize(date, schedule.end_time),
                  summary    |-> Summary(cols, row),
                  location   |-> schedule.location,
                  categories |-> <<"EDUCATION", "COURSE">>]
    IN  IF parts # <<>>
        THEN base @@ ("description" :> Join(parts, DescriptionSep))
        ELSE base

\* InRange with < in place of <=.
InRangeExclusive(date, schedule) == date < schedule.end_date

\* while current_date <= schedule['end_date']
InRange(date, schedule) == date <= schedule.end_date

\* if current_date.weekday() in schedule['weekdays']
OnWeekday(date, schedule) ==
    \E k \in 1..Len(schedule.weekdays) : schedule.weekdays[k] = Weekday(date)

(***************************************************************************)
(* Input texts.  Each field comes with what it means, written down from    *)
(* the calendar and the clock and not computed by the parser.              *)
(***************************************************************************)

\* "2025-11-17 - 2025-11-24"
TxtDateMonToMon ==
    <<"2", "0", "2", "5", "-", "1", "1", "-", "1", "7", " ", "-", " ", "2",
      "0", "2", "5", "-", "1", "1", "-", "2", "4">>

\* "2025-11-17 - 2025-11-19"
TxtDateShort ==
    <<"2", "0", "2", "5", "-", "1", "1", "-", "1", "7", " ", "-", " ", "2",
      "0", "2", "5", "-", "1", "1", "-", "1", "9">>

\* "2024-02-28 - 2024-3-1"
TxtDateLeap ==
    <<"2", "0", "2", "4", "-", "0", "2", "-", "2", "8", " ", "-", " ", "2",
      "0", "2", "4", "-", "3", "-", "1">>

\* "2025-11-24 - 2025-11-17"
TxtDateReversed ==
    <<"2", "0", "2", "5", "-", "1", "1", "-", "2", "4", " ", "-", " ", "2",
      "0", "2", "5", "-", "1", "1", "-", "1", "7">>

\* "9999-12-27 - 9999-12-31"
TxtDateLast ==
    <<"9", "9", "9", "9", "-", "1", "2", "-", "2", "7", " ", "-", " ", "9",
      "9", "9", "9", "-", "1", "2", "-", "3", "1">>

\* "2025-11-17 to 2025-11-24"
TxtDateNoSep ==
    <<"2", "0", "2", "5", "-", "1", "1", "-", "1", "7", " ", "t", "o", " ",
      "2", "0", "2", "5", "-", "1", "1", "-", "2", "4">>

\* "2025-13-01 - 2025-12-17"
TxtDateBadMonth ==
    <<"2", "0", "2", "5", "-", "1", "3", "-", "0", "1", " ", "-", " ", "2",
      "0", "2", "5", "-", "1", "2", "-", "1", "7">>

\* "2025-02-30 - 2025-03-01"
TxtDateBadDay ==
    <<"2", "0", "2", "5", "-", "0", "2", "-", "3", "0", " ", "-", " ", "2",
      "0", "2", "5", "-", "0", "3", "-", "0", "1">>

\* "2025-11-17 - 2025-11-24 - 2025-12-01"
TxtDateThree ==
    <<"2", "0", "2", "5", "-", "1", "1", "-", "1", "7", " ", "-", " ", "2",
      "0", "2", "5", "-", "1", "1", "-", "2", "4", " ", "-", " ", "2", "0",
      "2", "5", "-", "1", "2", "-", "0", "1">>

\* "9:30 a.m. - 11:00 a.m."
TxtTimeMorning ==
    <<"9", ":", "3", "0", " ", "a", ".", "m", ".", " ", "-", " ", "1", "1",
      ":", "0", "0", " ", "a", ".", "m", ".">>

\* "1:00 p.m - 2:30 p.m"
TxtTimeAfternoon ==
    <<"1", ":", "0", "0", " ", "p", ".", "m", " ", "-", " ", "2", ":", "3",
      "0", " ", "p", ".", "m">>

\* "12:00 AM - 12:30 PM"
TxtTimeNoon ==
    <<"1", "2", ":", "0", "0", " ", "A", "M", " ", "-", " ", "1", "2", ":",
      "3", "0", " ", "P", "M">>

\* "14:00 - 15:30"
TxtTime24h ==
    <<"1", "4", ":", "0", "0", " ", "-", " ", "1", "5", ":", "3", "0">>

\* "9:30 a.m."
TxtTimeSingle ==
    <<"9", ":", "3", "0", " ", "a", ".", "m", ".">>

\* "9:30 a.m. to 11:00 a.m."
TxtTimeNoSep ==
    <<"9", ":", "3", "0", " ", "a", ".", "m", ".", " ", "t", "o", " ", "1",
      "1", ":", "0", "0", " ", "a", ".", "m", ".">>

\* "UBCV | ICCS | Room: 1"
TxtTailRoom ==
    <<"U", "B", "C", "V", " ", "|", " ", "I", "C", "C", "S", " ", "|", " ",
      "R", "o", "o", "m", ":", " ", "1">>

\* "UBCV | Hugh Dempster Pavilion (DMP) | Floor: 1 | Room: 110"
TxtTailDempster ==
    <<"U", "B", "C", "V", " ", "|", " ", "H", "u", "g", "h", " ", "D", "e",
      "m", "p", "s", "t", "e", "r", " ", "P", "a", "v", "i", "l", "i", "o",
      "n", " ", "(", "D", "M", "P", ")", " ", "|", " ", "F", "l", "o", "o",
      "r", ":", " ", "1", " ", "|", " ", "R", "o", "o", "m", ":", " ", "1",
      "1", "0">>

\* "UBCV | ICCS"
TxtTailShort ==
    <<"U", "B", "C", "V", " ", "|", " ", "I", "C", "C", "S">>

\* "ICCS, Room: 1, UBCV"
TxtLocRoom ==
    <<"I", "C", "C", "S", ",", " ", "R", "o", "o", "m", ":", " ", "1", ",",
      " ", "U", "B", "C", "V">>

\* "Hugh Dempster Pavilion (DMP), Floor: 1 | Room: 110, UBCV"
TxtLocDempster ==
    <<"H", "u", "g", "h", " ", "D", "e", "m", "p", "s", "t", "e", "r", " ",
      "P", "a", "v", "i", "l", "i", "o", "n", " ", "(", "D", "M", "P", ")",
      ",", " ", "F", "l", "o", "o", "r", ":", " ", "1", " ", "|", " ", "R",
      "o", "o", "m", ":", " ", "1", "1", "0", ",", " ", "U", "B", "C", "V">>

\* "TBA"
TxtTBA ==
    <<"T", "B", "A">>

\* "TuTh"
TxtTuTh ==
    <<"T", "u", "T", "h">>

\* "CPSC 110"
TxtCourse ==
    <<"C", "P", "S", "C", " ", "1", "1", "0">>

\* "101"
TxtSection ==
    <<"1", "0", "1">>

\* "Ada"
TxtInstructor ==
    <<"A", "d", "a">>

\* "Lecture"
TxtFormat ==
    <<"L", "e", "c", "t", "u", "r", "e">>


\* Bounds of the inputs.
MaxBlocks == 2
MaxDayTokens == 3
MaxRows == 2

RECURSIVE SortSet(_)
\* The members of a set of numbers in ascending order.
SortSet(S) == IF S = {} THEN <<>>
              ELSE <<SetMin(S)>> \o SortSet(S \ {SetMin(S)})

Range(f) == {f[i] : i \in DOMAIN f}

GoodDates(text, s, e) == [text |-> text, ok |-> TRUE, start |-> s, end |-> e]
BadDates(text)        == [text |-> text, ok |-> FALSE, start |-> 0, end |-> 0]

DatesMonToMon == GoodDates(TxtDateMonToMon, Ordinal(2025, 11, 17), Ordinal(2025, 11, 24))
DatesShort    == GoodDates(TxtDateShort, Ordinal(2025, 11, 17), Ordinal(2025, 11, 19))
DatesLeap     == GoodDates(TxtDateLeap, Ordinal(2024, 2, 28), Ordinal(2024, 3, 1))
DatesReversed == GoodDates(TxtDateReversed, Ordinal(2025, 11, 24), Ordinal(2025, 11, 17))
DatesLast     == GoodDates(TxtDateLast, Ordinal(9999, 12, 27), Ordinal(9999, 12, 31))

DateFields == {DatesMonToMon, DatesShort, DatesLeap, DatesReversed, DatesLast,
               BadDates(TxtDateNoSep), BadDates(TxtDateBadMonth),
               BadDates(TxtDateBadDay), BadDates(TxtDateThree)}

Clock(h, m) == [hour |-> h, minute |-> m]
GoodTimes(text, s, e) == [text |-> text, ok |-> TRUE, start |-> s, end |-> e]
BadTimes(text)        == [text |-> text, ok |-> FALSE, start |-> Clock(0, 0), end |-> Clock(0, 0)]

TimesMorning   == GoodTimes(TxtTimeMorning, Clock(9, 30), Clock(11, 0))
TimesAfternoon == GoodTimes(TxtTimeAfternoon, Clock(13, 0), Clock(14, 30))
TimesNoon      == GoodTimes(TxtTimeNoon, Clock(0, 0), Clock(12, 30))

TimeFields == {TimesMorning, TimesAfternoon, TimesNoon,
               BadTimes(TxtTime24h), BadTimes(TxtTimeSingle), BadTimes(TxtTimeNoSep)}

\* A days field made of the names numbered by tokens (1 is Mon), glued by
\* glue; it names the weekdays tokens - 1.
DaysOf(tokens, glue) ==
    [text |-> Join([k \in 1..Len(tokens) |-> DayNames[tokens[k]]], glue),
     days |-> {tokens[k] - 1 : k \in 1..Len(tokens)}]
\* A days field with none of the seven names.
NoDays(text) == [text |-> text, days |-> {}]

DaysMonWed    == DaysOf(<<1, 3>>, <<" ">>)
DaysTueThu    == DaysOf(<<2, 4>>, <<>>)

DaysFields == {DaysMonWed, DaysTueThu, NoDays(TxtTBA), NoDays(TxtTuTh), NoDays(<<>>)}

\* Sequences of 1..MaxDayTokens distinct names, in any order.
TokenLists ==
    {t \in UNION {[1..n -> 1..7] : n \in 1..MaxDayTokens} :
        \A i, j \in DOMAIN t : i # j => t[i] # t[j]}

DaysVariants == {DaysOf(t, g) : t \in TokenLists, g \in {<<>>, <<" ">>}}

\* The fields after the time range: campus, building and details; n counts
\* them.
TailOf(text, n, location) == [text |-> text, n |-> n, location |-> location]
TailRoom     == TailOf(TxtTailRoom, 3, TxtLocRoom)
TailDempster == TailOf(TxtTailDempster, 4, TxtLocDempster)
TailShort    == TailOf(TxtTailShort, 2, <<>>)

TailFields == {TailRoom, TailDempster, TailShort}

\* One block of a pattern text and the fields it was written from.
Block(d, w, t, l) ==
    [kind |-> "fields", d |-> d, w |-> w, t |-> t, l |-> l,
     text |-> Join(<<d.text, w.text, t.text, l.text>>, FieldSep)]
\* A block of whitespace only.
BlankBlock(text) ==
    [kind |-> "blank", d |-> BadDates(<<>>), w |-> NoDays(<<>>),
     t |-> BadTimes(<<>>), l |-> TailShort, text |-> text]

\* The base block with one field varied at a time, and the blank blocks.
CoreBlocks ==
    {Block(d, DaysMonWed, TimesMorning, TailRoom) : d \in DateFields}
    \cup {Block(DatesMonToMon, w, TimesMorning, TailRoom) : w \in DaysFields}
    \cup {Block(DatesMonToMon, DaysMonWed, t, TailRoom) : t \in TimeFields}
    \cup {Block(DatesMonToMon, DaysMonWed, TimesMorning, l) : l \in TailFields}
    \cup {BlankBlock(<<>>), BlankBlock(<<" ", "\t">>)}

\* The pattern texts given to the parser: up to MaxBlocks core blocks, or
\* one block whose days field is varied.
ParserInputs ==
    UNION {[1..n -> CoreBlocks] : n \in 1..MaxBlocks}
    \cup {<<Block(DatesShort, w, TimesAfternoon, TailRoom)>> : w \in DaysVariants}

\* The text of a sequence of blocks: joined by a double line break.
PatternText(blocks) ==
    Join([k \in 1..Len(blocks) |-> blocks[k].text], BlockSep)

\* "2025-11-17 - 2025-11-24 | Mon Wed | 9:30 a.m. - 11:00 a.m. | UBCV | Hugh Dempster Pavilion (DMP) | Floor: 1 | Room: 110"
TxtConcrete ==
    <<"2", "0", "2", "5", "-", "1", "1", "-", "1", "7", " ", "-", " ", "2",
      "0", "2", "5", "-", "1", "1", "-", "2", "4", " ", "|", " ", "M", "o",
      "n", " ", "W", "e", "d", " ", "|", " ", "9", ":", "3", "0", " ", "a",
      ".", "m", ".", " ", "-", " ", "1", "1", ":", "0", "0", " ", "a", ".",
      "m", ".", " ", "|", " ", "U", "B", "C", "V", " ", "|", " ", "H", "u",
      "g", "h", " ", "D", "e", "m", "p", "s", "t", "e", "r", " ", "P", "a",
      "v", "i", "l", "i", "o", "n", " ", "(", "D", "M", "P", ")", " ", "|",
      " ", "F", "l", "o", "o", "r", ":", " ", "1", " ", "|", " ", "R", "o",
      "o", "m", ":", " ", "1", "1", "0">>

Row(cl, mp, sec, ins, fmt) ==
    [c \in ColumnNames |->
        CASE c = "Course Listing" -> cl
          [] c = "Meeting Patterns" -> mp
          [] c = "Section" -> sec
          [] c = "Instructor" -> ins
          [] c = "Instructional Format" -> fmt]

Blank == StrCell(<<>>)
Text1(block) == StrCell(PatternText(<<block>>))

PatShort    == Block(DatesShort, DaysMonWed, TimesMorning, TailRoom)
PatTueThu   == Block(DatesShort, DaysTueThu, TimesAfternoon, TailRoom)
PatBadDay   == Block(BadDates(TxtDateBadDay), DaysMonWed, TimesMorning, TailRoom)
PatReversed == Block(DatesReversed, DaysMonWed, TimesMorning, TailRoom)
PatLast     == Block(DatesLast, DaysMonWed, TimesMorning, TailRoom)
PatNoDays   == Block(DatesShort, NoDays(TxtTBA), TimesMorning, TailRoom)

\* The row of the concrete scenario.
ConcreteRow ==
    Row(StrCell(TxtCourse), StrCell(TxtConcrete), StrCell(TxtSection),
        StrCell(TxtInstructor), StrCell(TxtFormat))

\* A row whose Course Listing is NaN and whose pattern is well-formed.
NaNCourseRow == Row(NaNCell, Text1(PatShort), Blank, Blank, StrCell(TxtFormat))

Rows ==
    {ConcreteRow,
     Row(StrCell(TxtCourse), StrCell(PatternText(<<PatTueThu, PatBadDay>>)),
         Blank, Blank, Blank),
     Row(StrCell(TxtCourse), Text1(PatReversed), StrCell(<<" ">>),
         StrCell(TxtInstructor), Blank),
     Row(StrCell(TxtCourse), Text1(PatLast), StrCell(TxtSection), Blank,
         StrCell(TxtFormat)),
     NaNCourseRow,
     Row(StrCell(<<" ", " ">>), Text1(PatShort), Blank, StrCell(TxtInstructor),
         StrCell(TxtFormat)),
     Row(StrCell(TxtCourse), Blank, StrCell(TxtSection), StrCell(TxtInstructor),
         Blank),
     Row(StrCell(TxtCourse), NaNCell, Blank, Blank, Blank),
     Row(StrCell(TxtCourse), Text1(PatNoDays), StrCell(TxtSection), Blank, Blank)}

\* The columns a table may have: all five, or all but some.
ColumnSets ==
    {ColumnNames,
     ColumnNames \ {"Course Listing"},
     ColumnNames \ {"Meeting Patterns"},
     ColumnNames \ {"Section", "Instructor", "Instructional Format"}}

Tables == UNION {[1..n -> Rows] : n \in 0..MaxRows}

(***************************************************************************)
(* State                                                                   *)
(***************************************************************************)

VARIABLES
    entry,          \* the function that was called
    columns,        \* df.columns
    df,             \* the rows of the table
    pc,             \* where control is
    index,          \* the row of the loop over df.iterrows()
    schedules,      \* the schedules of that row
    si,             \* the schedule of the loop over schedules
    current_date,   \* the date of the while loop
    cal,            \* the events added to the calendar
    events_created,
    ret,            \* what create_ics_from_excel_df returned or raised
    out,            \* what process_excel_file returned
    origin,         \* history: for each event, its <<row, schedule>>
    visited,        \* history: the dates the current while loop has tested
    meeting_pattern, \* the argument of parse_meeting_pattern
    patterns,       \* its blocks
    bi,             \* the block of the loop over patterns
    p_schedules,    \* the list parse_meeting_pattern builds
    ppc,            \* where control is in parse_meeting_pattern
    blocks_in       \* history: the blocks the argument was written from

tvars == <<entry, columns, df, pc, index, schedules, si, current_date, cal,
           events_created, ret, out, origin, visited>>
pvars == <<meeting_pattern, patterns, bi, p_schedules, ppc, blocks_in>>
vars  == <<tvars, pvars>>

Pending == [kind |-> "pending"]

\* Nothing is running on the table side.
TableIdle ==
    /\ entry = "none" /\ columns = {} /\ df = <<>> /\ pc = "idle"
    /\ index = 0 /\ schedules = <<>> /\ si = 0 /\ current_date = 0
    /\ cal = <<>> /\ events_created = 0 /\ ret = Pending /\ out = Pending
    /\ origin = <<>> /\ visited = <<>>

\* Nothing is running on the parser side.
ParserIdle ==
    /\ meeting_pattern = <<>> /\ patterns = <<>> /\ bi = 0
    /\ p_schedules = <<>> /\ ppc = "idle" /\ blocks_in = <<>>

(***************************************************************************)
(* parse_meeting_pattern, block by block                                   *)
(***************************************************************************)

InitParse ==
    /\ TableIdle
    /\ blocks_in \in ParserInputs
    /\ meeting_pattern = PatternText(blocks_in)
    /\ patterns = <<>> /\ bi = 0 /\ p_schedules = <<>> /\ ppc = "call"

\* if not meeting_pattern: return []
ParseNothing ==
    /\ ppc = "call" /\ meeting_pattern = <<>>
    /\ p_schedules' = <<>>
    /\ ppc' = "returned"
    /\ UNCHANGED <<meeting_pattern, patterns, bi, blocks_in, tvars>>

\* patterns = meeting_pattern.split('\n\n'); schedules = []
ParseSplit ==
    /\ ppc = "call" /\ meeting_pattern # <<>>
    /\ patterns' = Split(meeting_pattern, BlockSep)
    /\ p_schedules' = <<>>
    /\ bi' = 1
    /\ ppc' = "loop"
    /\ UNCHANGED <<meeting_pattern, blocks_in, tvars>>

\* One pass of: for pattern in patterns
ParseOneBlock ==
    /\ ppc = "loop" /\ bi <= Len(patterns)
    /\ p_schedules' = p_schedules \o ParseBlock(patterns[bi])
    /\ bi' = bi + 1
    /\ UNCHANGED <<meeting_pattern, patterns, ppc, blocks_in, tvars>>

\* return schedules
ParseReturn ==
    /\ ppc = "loop" /\ bi > Len(patterns)
    /\ ppc' = "returned"
    /\ UNCHANGED <<meeting_pattern, patterns, bi, p_schedules, blocks_in, tvars>>

NextParse == ParseNothing \/ ParseSplit \/ ParseOneBlock \/ ParseReturn

SpecParse == InitParse /\ [][NextParse]_vars

(***************************************************************************)
(* create_ics_from_excel_df and process_excel_file                         *)
(***************************************************************************)

Init ==
    /\ ParserIdle
    /\ entry \in {"create_ics_from_excel_df", "process_excel_file"}
    /\ columns \in ColumnSets
    /\ df \in Tables
    /\ pc = (IF entry = "process_excel_file" THEN "process" ELSE "create")
    /\ index = 0 /\ schedules = <<>> /\ si = 0 /\ current_date = 0
    /\ cal = <<>> /\ events_created = 0 /\ ret = Pending /\ out = Pending
    /\ origin = <<>> /\ visited = <<>>

\* Where control goes when create_ics_from_excel_df returns or raises.
AfterCreate == IF entry = "process_excel_file" THEN "returned" ELSE "done"

\* process_excel_file, df.empty: return None, "No course data found ..."
ProcessNoData ==
    /\ pc = "process" /\ df_empty(df)
    /\ out' = [kind |-> "no course data"]
    /\ pc' = "done"
    /\ UNCHANGED <<entry, columns, df, index, schedules, si, current_date, cal,
                   events_created, ret, origin, visited, pvars>>

\* process_excel_file calls create_ics_from_excel_df(df)
ProcessCall ==
    /\ pc = "process" /\ ~ df_empty(df)
    /\ pc' = "create"
    /\ UNCHANGED <<entry, columns, df, index, schedules, si, current_date, cal,
                   events_created, ret, out, origin, visited, pvars>>

\* create_ics_from_excel_df, df.empty: return None, "No course data found ..."
CreateNoData ==
    /\ pc = "create" /\ df_empty(df)
    /\ ret' = [kind |-> "no data"]
    /\ pc' = AfterCreate
    /\ UNCHANGED <<entry, columns, df, index, schedules, si, current_date, cal,
                   events_created, out, origin, visited, pvars>>

\* cal = Calendar(); events_created = 0; the loop over the rows begins
CreateBegin ==
    /\ pc = "create" /\ ~ df_empty(df)
    /\ cal' = <<>>
    /\ events_created' = 0
    /\ index' = 1
    /\ pc' = "rows"
    /\ UNCHANGED <<entry, columns, df, schedules, si, current_date, ret, out,
                   origin, visited, pvars>>

\* A row with a blank course listing or meeting pattern: continue
SkipRow ==
    /\ pc = "rows" /\ index <= Len(df)
    /\ RowIsSkipped(columns, df[index])
    /\ index' = index + 1
    /\ UNCHANGED <<entry, columns, df, pc, schedules, si, current_date, cal,
                   events_created, ret, out, origin, visited, pvars>>

\* if not schedules: continue
RowWithoutSchedules ==
    /\ pc = "rows" /\ index <= Len(df)
    /\ ~ RowIsSkipped(columns, df[index])
    /\ RowSchedules(columns, df[index]) = <<>>
    /\ schedules' = <<>>
    /\ index' = index + 1
    /\ UNCHANGED <<entry, columns, df, pc, si, current_date, cal,
                   events_created, ret, out, origin, visited, pvars>>

\* The row has schedules: the loop over them begins
StartRow ==
    /\ pc = "rows" /\ index <= Len(df)
    /\ ~ RowIsSkipped(columns, df[index])
    /\ RowSchedules(columns, df[index]) # <<>>
    /\ schedules' = RowSchedules(columns, df[index])
    /\ si' = 1
    /\ pc' = "schedules"
    /\ UNCHANGED <<entry, columns, df, index, current_date, cal,
                   events_created, ret, out, origin, visited, pvars>>

\* current_date = schedule['start_date']
StartSchedule ==
    /\ pc = "schedules" /\ si <= Len(schedules)
    /\ current_date' = schedules[si].start_date
    /\ visited' = <<>>
    /\ pc' = "dates"
    /\ UNCHANGED <<entry, columns, df, index, schedules, si, cal,
                   events_created, ret, out, origin, pvars>>

\* The schedules of the row are done: the next row
EndRow ==
    /\ pc = "schedules" /\ si > Len(schedules)
    /\ index' = index + 1
    /\ pc' = "rows"
    /\ UNCHANGED <<entry, columns, df, schedules, si, current_date, cal,
                   events_created, ret, out, origin, visited, pvars>>

\* The while body on a date of one of the weekdays: an event is added
EmitEvent ==
    /\ pc = "dates" /\ InRange(current_date, schedules[si])
    /\ OnWeekday(current_date, schedules[si])
    /\ current_date < MaxOrdinal
    /\ cal' = Append(cal, MakeEvent(columns, df[index], schedules[si],
                                    current_date, Len(cal) + 1))
    /\ origin' = Append(origin, <<index, si>>)
    /\ events_created' = events_created + 1
    /\ visited' = Append(visited, current_date)
    /\ current_date' = current_date + 1
    /\ UNCHANGED <<entry, columns, df, pc, index, schedules, si, ret, out, pvars>>

\* The while body on a date of another weekday
SkipDate ==
    /\ pc = "dates" /\ InRange(current_date, schedules[si])
    /\ ~ OnWeekday(current_date, schedules[si])
    /\ current_date < MaxOrdinal
    /\ visited' = Append(visited, current_date)
    /\ current_date' = current_date + 1
    /\ UNCHANGED <<entry, columns, df, pc, index, schedules, si, cal,
                   events_created, ret, out, origin, pvars>>

\* The while body on date.max: current_date += timedelta(days=1) raises
\* OverflowError, which leaves create_ics_from_excel_df.  cal is a local of
\* the call and is lost with it, so an event added for date.max before the
\* error is not recorded.
DateOverflow ==
    /\ pc = "dates" /\ InRange(current_date, schedules[si])
    /\ current_date = MaxOrdinal
    /\ visited' = Append(visited, current_date)
    /\ ret' = [kind |-> "raised", error |-> "OverflowError"]
    /\ pc' = AfterCreate
    /\ UNCHANGED <<entry, columns, df, index, schedules, si, current_date, cal,
                   events_created, out, origin, pvars>>

\* current_date is past end_date: the next schedule
EndSchedule ==
    /\ pc = "dates" /\ ~ InRange(current_date, schedules[si])
    /\ si' = si + 1
    /\ pc' = "schedules"
    /\ UNCHANGED <<entry, columns, df, index, schedules, current_date, cal,
                   events_created, ret, out, origin, visited, pvars>>

\* ReturnCalendar with the no-data result for a calendar without events.
ReturnCalendarOrNoData ==
    /\ pc = "rows" /\ index > Len(df)
    /\ ret' = (IF events_created = 0
               THEN [kind |-> "no data"]
               ELSE [kind |-> "calendar", ical |-> cal,
                     events_created |-> events_created])
    /\ pc' = AfterCreate
    /\ UNCHANGED <<entry, columns, df, index, schedules, si, current_date, cal,
                   events_created, out, origin, visited, pvars>>

\* return cal.to_ical(), events_created
ReturnCalendar ==
    /\ pc = "rows" /\ index > Len(df)
    /\ ret' = [kind |-> "calendar", ical |-> cal, events_created |-> events_created]
    /\ pc' = AfterCreate
    /\ UNCHANGED <<entry, columns, df, index, schedules, si, current_date, cal,
                   events_created, out, origin, visited, pvars>>

\* process_excel_file after the call: an exception becomes the error
\* message, no calendar becomes the failure message, and a calendar becomes
\* the success message with len(df) and events_created
ProcessFinish ==
    /\ pc = "returned"
    /\ out' = CASE ret.kind = "raised" -> [kind |-> "error", error |-> ret.error]
                [] ret.kind = "no data" -> [kind |-> "failed"]
                [] ret.kind = "calendar" ->
                     [kind |-> "success", ical |-> ret.ical,
                      course_entries |-> Len(df),
                      events_created |-> ret.events_created]
    /\ pc' = "done"
    /\ UNCHANGED <<entry, columns, df, index, schedules, si, current_date, cal,
                   events_created, ret, origin, visited, pvars>>

Next ==
    \/ ProcessNoData \/ ProcessCall \/ ProcessFinish
    \/ CreateNoData \/ CreateBegin
    \/ SkipRow \/ RowWithoutSchedules \/ StartRow
    \/ StartSchedule \/ EndRow
    \/ EmitEvent \/ SkipDate \/ DateOverflow \/ EndSchedule
    \/ ReturnCalendar

Spec == Init /\ [][Next]_vars

(***************************************************************************)
(* What the blocks and the rows ought to give                              *)
(***************************************************************************)

\* A block is well-formed when it is not blank, has six fields or more, a
\* date range and a time range that parse, and a weekday name.
WellFormed(b) ==
    /\ b.kind = "fields"
    /\ 3 + b.l.n >= 6
    /\ b.d.ok /\ b.t.ok
    /\ b.w.days # {}

\* The schedule of a block, read off the fields it was written from.
ScheduleOf(b) ==
    IF WellFormed(b)
    THEN << [start_date |-> b.d.start, end_date |-> b.d.end,
             start_time |-> b.t.start, end_time |-> b.t.end,
             weekdays   |-> SortSet(b.w.days),
             location   |-> b.l.location] >>
    ELSE <<>>

RECURSIVE Flatten(_)
\* The concatenation of a sequence of sequences.
Flatten(ss) == IF ss = <<>> THEN <<>> ELSE ss[1] \o Flatten(Tail(ss))

SchedulesOf(blocks) == Flatten([k \in 1..Len(blocks) |-> ScheduleOf(blocks[k])])

\* The dates of a schedule's range that fall on its weekdays, ascending.
DatesOf(s) ==
    SortSet({d \in s.start_date..s.end_date : Weekday(d) \in Range(s.weekdays)})

NoUid(e) == [k \in DOMAIN e \ {"uid"} |-> e[k]]
WithoutUids(events) == [i \in 1..Len(events) |-> NoUid(events[i])]

\* The events of the rows of a table in which no row is skipped: row by
\* row, schedule by schedule, date by date.
ScheduleEvents(cols, row, s) ==
    LET ds == DatesOf(s)
    IN  [i \in 1..Len(ds) |-> NoUid(MakeEvent(cols, row, s, ds[i], 0))]
RowEvents(cols, row) ==
    LET S == RowSchedules(cols, row)
    IN  Flatten([k \in 1..Len(S) |-> ScheduleEvents(cols, row, S[k])])
TableEvents(cols, rows) ==
    Flatten([i \in 1..Len(rows) |-> RowEvents(cols, rows[i])])

\* Some schedule of the rows has date.max in its range.
TableReachesDateMax(cols, rows) ==
    \E i \in 1..Len(rows) :
        LET S == RowSchedules(cols, rows[i])
        IN  \E k \in 1..Len(S) :
                S[k].start_date <= S[k].end_date /\ S[k].end_date = MaxOrdinal

\* The triples (row, schedule, date) of the table.
Triples ==
    UNION {
      LET S == RowSchedules(columns, df[r])
      IN  UNION {{<<r, k, d>> : d \in Range(DatesOf(S[k]))} : k \in 1..Len(S)}
      : r \in {i \in 1..Len(df) : ~ RowIsSkipped(columns, df[i])}}

\* The triples the events of the calendar were made for.
EventTriples ==
    {<<origin[i][1], origin[i][2], cal[i].dtstart.date>> : i \in 1..Len(cal)}

CreateReturned == ret.kind # "pending"

IsBlankText(s) == \A i \in 1..Len(s) : s[i] \in Whitespace

\* A field of a row is blank or absent: its column is missing or it holds
\* only whitespace.
BlankOrAbsent(row, name) ==
    name \notin columns \/ (row[name].k = "str" /\ IsBlankText(row[name].s))
\* A field of a row holds the absent-value marker.
IsMarker(row, name) == name \in columns /\ row[name].k = "nan"

\* The rows of df that are not in the set skipped of row numbers.
RowsExcept(skipped) ==
    LET keep == SortSet({i \in 1..Len(df) : i \notin skipped})
    IN  [j \in 1..Len(keep) |-> df[keep[j]]]

(***************************************************************************)
(* Properties                                                              *)
(***************************************************************************)

\* C1: when create_ics_from_excel_df is given a table with rows, it returns
\* a calendar whose events are in one-to-one correspondence with the
\* triples (non-skipped row, schedule of the row, date of the range on one
\* of the weekdays), and the count it returns is the number of triples.
ExpansionMatchesTriples ==
    (CreateReturned /\ Len(df) > 0) =>
        /\ ret.kind = "calendar"
        /\ EventTriples = Triples
        /\ Len(ret.ical) = Cardinality(Triples)
        /\ ret.events_created = Cardinality(Triples)

\* The same for the tables that return: short of date.max the events are
\* the triples.
ExpansionMatchesTriplesWhenReturned ==
    ret.kind = "calendar" =>
        /\ EventTriples = Triples
        /\ Len(ret.ical) = Cardinality(Triples)
        /\ ret.events_created = Cardinality(Triples)

\* C2: every schedule parse_meeting_pattern has built has
\* start_date <= end_date.
ParsedRangesOrdered ==
    \A k \in 1..Len(p_schedules) :
        p_schedules[k].start_date <= p_schedules[k].end_date

ConcreteScenarioFourEvents ==
    (CreateReturned /\ df = <<ConcreteRow>> /\ columns = ColumnNames) =>
        /\ ret.kind = "calendar"
        /\ ret.events_created = 4

\* C4: the row of the concrete block yields exactly 3 events, on
\* 2025-11-17, 2025-11-19 and 2025-11-24.
ConcreteScenarioThreeEvents ==
    (CreateReturned /\ df = <<ConcreteRow>> /\ columns = ColumnNames) =>
        /\ ret.kind = "calendar"
        /\ ret.events_created = 3
        /\ [i \in 1..Len(ret.ical) |-> ret.ical[i].dtstart.date]
             = <<Ordinal(2025, 11, 17), Ordinal(2025, 11, 19), Ordinal(2025, 11, 24)>>

\* C4 happens: the concrete row was converted.
ConcreteScenarioWitness ==
    /\ df = <<ConcreteRow>> /\ columns = ColumnNames
    /\ ret.kind = "calendar" /\ ret.events_created = 3

\* "Mon Wed Fri"
TxtMonWedFri ==
    <<"M", "o", "n", " ", "W", "e", "d", " ", "F", "r", "i">>

\* "TueThu"
TxtTueThu ==
    <<"T", "u", "e", "T", "h", "u">>

\* C5: a days field made of weekday names, in any order, spaced or
\* concatenated, gives the weekday numbers of those names; "Mon Wed Fri"
\* gives {0, 2, 4} and "TueThu" gives {1, 3}.
WeekdayExtraction ==
    (ppc = "returned" /\ Len(blocks_in) = 1 /\ WellFormed(blocks_in[1])) =>
        /\ Len(p_schedules) = 1
        /\ p_schedules[1].weekdays = SortSet(blocks_in[1].w.days)
        /\ blocks_in[1].w.text = TxtMonWedFri
              => Range(p_schedules[1].weekdays) = {0, 2, 4}
        /\ blocks_in[1].w.text = TxtTueThu
              => Range(p_schedules[1].weekdays) = {1, 3}

\* C5 happens: the field "ThuTue", out of order and concatenated, gave
\* {1, 3}.
WeekdayExtractionWitness ==
    /\ ppc = "returned" /\ Len(blocks_in) = 1
    /\ blocks_in[1].w = DaysOf(<<4, 2>>, <<>>)
    /\ Len(p_schedules) = 1
    /\ Range(p_schedules[1].weekdays) = {1, 3}

\* C6: create_ics_from_excel_df returns the no-data result exactly when the
\* table is empty; a table with rows of which none gives an event returns a
\* calendar and the count 0, which is another result; and process_excel_file
\* reports no course data exactly for the empty table.
NoDataOnlyForEmptyTable ==
    /\ CreateReturned =>
          /\ (ret.kind = "no data") <=> (Len(df) = 0)
          /\ (Len(df) > 0 /\ ret.kind # "raised" /\ cal = <<>>) =>
                (ret.kind = "calendar" /\ ret.events_created = 0)
    /\ (pc = "done" /\ entry = "process_excel_file") =>
          /\ (out.kind = "no course data") <=> (Len(df) = 0)
          /\ out.kind # "failed"

\* C6 happens: a table with rows gave a calendar with no event.
NoDataWitness ==
    /\ Len(df) > 0 /\ ret.kind = "calendar" /\ ret.events_created = 0

\* The row is one the claim C7 says is skipped: Course Listing or Meeting
\* Patterns blank, absent or the marker.
ClaimedSkipped(row) ==
    \/ BlankOrAbsent(row, "Course Listing") \/ IsMarker(row, "Course Listing")
    \/ BlankOrAbsent(row, "Meeting Patterns") \/ IsMarker(row, "Meeting Patterns")

\* Course Listing blank or absent, or Meeting Patterns blank, absent or the
\* marker.
AmendedSkipped(row) ==
    \/ BlankOrAbsent(row, "Course Listing")
    \/ BlankOrAbsent(row, "Meeting Patterns") \/ IsMarker(row, "Meeting Patterns")

\* The rows in skipped give no schedule, no event and no error, and the
\* result is the result of the table without them.
SkippedRowsAreInert(skipped) ==
    /\ \A i \in 1..Len(origin) : origin[i][1] \notin skipped
    /\ pc \in {"schedules", "dates"} => index \notin skipped
    /\ ret.kind = "raised" => index \notin skipped
    /\ (CreateReturned /\ Len(df) > 0) =>
          /\ (ret.kind = "raised")
               <=> TableReachesDateMax(columns, RowsExcept(skipped))
          /\ ret.kind = "calendar" =>
               /\ WithoutUids(ret.ical) = TableEvents(columns, RowsExcept(skipped))
               /\ ret.events_created = Len(TableEvents(columns, RowsExcept(skipped)))

\* C7 as claimed: a row whose Course Listing or Meeting Patterns is blank,
\* absent or the marker gives nothing, and the other rows give what they
\* give without it.
SkipAndIsolationAsClaimed ==
    SkippedRowsAreInert({i \in 1..Len(df) : ClaimedSkipped(df[i])})

\* C7: a row whose Course Listing is blank or absent, or whose Meeting
\* Patterns is blank, absent or the marker, gives no schedule, no event and
\* no error, and the other rows give what they give without it.
SkipAndIsolation ==
    SkippedRowsAreInert({i \in 1..Len(df) : AmendedSkipped(df[i])})

\* C7 happens: a table with a skipped row and a row that gave events.
SkipAndIsolationWitness ==
    /\ ret.kind = "calendar" /\ Len(ret.ical) > 0
    /\ columns = ColumnNames
    /\ \E i \in 1..Len(df) : AmendedSkipped(df[i])

\* The lines of the description of a row, as the claim C8 lists them.
ClaimedParts(row) ==
    LET text(name) == IF name \in columns THEN Strip(row[name].s) ELSE <<>>
        line(label, name) ==
            IF IsBlankText(text(name)) THEN <<>> ELSE <<label \o text(name)>>
    IN  line(<<"S", "e", "c", "t", "i", "o", "n", ":", " ">>, "Section")
        \o line(<<"I", "n", "s", "t", "r", "u", "c", "t", "o", "r", ":", " ">>,
                "Instructor")
        \o line(<<"F", "o", "r", "m", "a", "t", ":", " ">>, "Instructional Format")

\* C8: the description of every event is the lines of the non-blank ones of
\* Section, Instructor and Format, in that order, and an event of a row with
\* all three blank has no description property.
DescriptionComposition ==
    \A i \in 1..Len(cal) :
        LET parts == ClaimedParts(df[origin[i][1]])
        IN  IF parts = <<>>
            THEN "description" \notin DOMAIN cal[i]
            ELSE /\ "description" \in DOMAIN cal[i]
                 /\ cal[i].description = Join(parts, DescriptionSep)

\* C8 happens: an event without a description and an event with all three
\* lines are in the calendar.
DescriptionWitness ==
    /\ \E i \in 1..Len(cal) : "description" \notin DOMAIN cal[i]
    /\ \E i \in 1..Len(cal) : Len(ClaimedParts(df[origin[i][1]])) = 3

\* C9: the row count process_excel_file reports is the number of rows that
\* gave at least one schedule.
ReportedRowsGaveSchedules ==
    (pc = "done" /\ out.kind = "success") =>
        out.course_entries =
            Cardinality({i \in 1..Len(df) :
                            /\ ~ RowIsSkipped(columns, df[i])
                            /\ RowSchedules(columns, df[i]) # <<>>})

\* The dates from a to b, ascending; none when b < a.
DateRun(a, b) == [i \in 1..(b - a + 1) |-> a + i - 1]

\* The while loop tests the dates of the range once each, ascending, and a
\* range that ends before it starts gives no event.
LoopVisitsRange ==
    /\ pc = "dates" =>
          /\ visited = DateRun(schedules[si].start_date, current_date - 1)
          /\ current_date <= schedules[si].end_date + 1
             \/ visited = <<>>
    /\ (pc = "schedules" /\ si > 1) =>
          /\ visited = DateRun(schedules[si - 1].start_date,
                               schedules[si - 1].end_date)
          /\ schedules[si - 1].end_date < schedules[si - 1].start_date =>
                \A i \in 1..Len(origin) : origin[i] # <<index, si - 1>>

\* C10: every schedule's loop ends without error, after testing each date
\* from start_date to end_date once, in ascending order; a schedule with
\* end_date < start_date gives no event.
LoopTerminatesOverRange ==
    /\ ret.kind # "raised"
    /\ LoopVisitsRange

=============================================================================
